---- MODULE Spec2Model ----
(***************************************************************************)
(* A model of fourjr/sg-vaccines: the date-window computation              *)
(* (utils.get_dates, main.get_dates), the timestamp parsing                *)
(* (utils.parse_date, main.format_date), the record constructors           *)
(* (models.Location, models.TimeSlot), the API client (models.API) and     *)
(* the interactive flow of main.py.                                        *)
(***************************************************************************)
EXTENDS Integers, Sequences, FiniteSets

VARIABLES
    pc,     \* position of the operation in flight
    call,   \* the operation called and its arguments
    clock,  \* what datetime.now(tz) returned to the operation (NoDate: not read)
    ret,    \* what the operation returned or raised
    gets,   \* the HTTP GETs issued so far, in order
    out,    \* what was written to stdout and which prompts were shown, in order
    data,   \* the dict handed to a constructor, as the constructor left it
    body    \* the JSON body of the last response received

vars == <<pc, call, clock, ret, gets, out, data, body>>

(***************************************************************************)
(* Bounds of the model.                                                    *)
(***************************************************************************)
\* Last calendar year of the dates the inputs are drawn from.
MaxYear == 2024
\* First calendar year of the dates the inputs are drawn from.
FirstYear == MaxYear - 1

(***************************************************************************)
(* Python values, as far as the program tells them apart.                  *)
(***************************************************************************)
PyNone == [type |-> "NoneType"]
PyInt(n) == [type |-> "int", int |-> n]
PyBool(b) == [type |-> "bool", bool |-> b]
\* a str whose text is known only by name
PyStr(text) == [type |-> "str", form |-> "text", text |-> text]
\* the str "y-m-dTH:M:S.usZ", whose fields may be out of range
PyStamp(y, m, d, H, M, S, us) ==
    [type |-> "str", form |-> "stamp",
     stamp |-> [y |-> y, m |-> m, d |-> d, H |-> H, M |-> M, S |-> S, us |-> us]]
\* a str given by its characters
PyChars(chars) == [type |-> "str", form |-> "chars", chars |-> chars]
PyDatetime(dt) == [type |-> "datetime", dt |-> dt]
PyTuple(items) == [type |-> "tuple", items |-> items]
PyList(items) == [type |-> "list", items |-> items]
\* a dict in the order of its keys, as a sequence of [key, val] entries
PyDict(entries) == [type |-> "dict", entries |-> entries]
NoBody == [type |-> "none"]

\* A dict maps every key to its value, or to Absent when it lacks the key.
Absent == [type |-> "absent"]

LocationKeys ==
    {"name", "hci_code", "address", "latitude", "longitude", "earliestSlot", "priority",
     "minInterval", "maxInterval", "minClinicInterval", "maxClinicInterval", "vaccineType"}

TimeSlotKeys == {"id", "time", "hasCapacity", "count", "capacity"}

DictKeys == LocationKeys \cup TimeSlotKeys

EmptyDict == [k \in DictKeys |-> Absent]

Return(v) == [kind |-> "return", val |-> v]
Raise(exc) == [kind |-> "raise", exc |-> exc]

IsInstanceStr(v) == v.type = "str"

(***************************************************************************)
(* Calendar arithmetic of datetime and dateutil.relativedelta.             *)
(***************************************************************************)
\* Python's None where a datetime is expected (no datetime has year 0).
NoDate == [y |-> 0, m |-> 0, d |-> 0]

IsLeap(y) == (y % 4 = 0) /\ ((y % 100 # 0) \/ (y % 400 = 0))

\* calendar.monthrange(year, month)[1]
DaysInMonth(y, m) ==
    IF m = 2 THEN (IF IsLeap(y) THEN 29 ELSE 28)
    ELSE IF m \in {4, 6, 9, 11} THEN 30 ELSE 31

Min(a, b) == IF a < b THEN a ELSE b

\* The valid dates of the years FirstYear..MaxYear.
Dates ==
    {[y |-> yy, m |-> mm, d |-> dd] :
        yy \in FirstYear..MaxYear, mm \in 1..12, dd \in 1..31} \
    {x \in [y : FirstYear..MaxYear, m : 1..12, d : 29..31] : x.d > DaysInMonth(x.y, x.m)}

\* datetime._days_before_year
DaysBeforeYear(y) ==
    (y - 1) * 365 + ((y - 1) \div 4) - ((y - 1) \div 100) + ((y - 1) \div 400)

RECURSIVE DaysBeforeMonth(_, _)
\* datetime._days_before_month
DaysBeforeMonth(y, m) ==
    IF m = 1 THEN 0 ELSE DaysBeforeMonth(y, m - 1) + DaysInMonth(y, m - 1)

\* date.toordinal: 0001-01-01 is day 1
ToOrdinal(dt) == DaysBeforeYear(dt.y) + DaysBeforeMonth(dt.y, dt.m) + dt.d

RECURSIVE MonthOfYearDay(_, _, _)
\* the month and day of the n-th day (from 0) of year y, searching from month m
MonthOfYearDay(y, m, n) ==
    IF n < DaysInMonth(y, m) THEN [y |-> y, m |-> m, d |-> n + 1]
    ELSE MonthOfYearDay(y, m + 1, n - DaysInMonth(y, m))

\* date.fromordinal (datetime._ord2ymd): the 400/100/4/1-year cycles
FromOrdinal(ord) ==
    LET n0   == ord - 1
        n400 == n0 \div 146097
        r400 == n0 % 146097
        n100 == r400 \div 36524
        r100 == r400 % 36524
        n4   == r100 \div 1461
        r4   == r100 % 1461
        n1   == r4 \div 365
        r1   == r4 % 365
        year == n400 * 400 + 1 + n100 * 100 + n4 * 4 + n1
    IN  IF n1 = 4 \/ n100 = 4
        THEN [y |-> year - 1, m |-> 12, d |-> 31]
        ELSE MonthOfYearDay(year, 1, r1)

\* what stands for a datetime when computing it raised ValueError
ValueErrorDate == [y |-> -1, m |-> 0, d |-> 0]

\* datetime + timedelta(days=n)
AddDays(dt, n) ==
    IF dt = ValueErrorDate THEN ValueErrorDate ELSE FromOrdinal(ToOrdinal(dt) + n)

\* dt.replace(year=, month=, day=): ValueError when the month has no such day
Replace(dt, year, month, day) ==
    IF day > DaysInMonth(year, month) THEN ValueErrorDate
    ELSE [y |-> year, m |-> month, d |-> day]

\* datetime + relativedelta(months=months, days=days): the month is advanced
\* with a carry into the year, the day is clamped to the new month's length,
\* and the days are added last.
AddRelativeDelta(dt, months, days) ==
    LET m0    == dt.m + months
        year  == IF m0 > 12 THEN dt.y + 1 ELSE dt.y
        month == IF m0 > 12 THEN m0 - 12 ELSE m0
        day   == Min(DaysInMonth(year, month), dt.d)
    IN  IF dt = ValueErrorDate THEN ValueErrorDate
        ELSE AddDays(Replace(dt, year, month, day), days)

(***************************************************************************)
(* strftime: a string is the sequence of its characters.                   *)
(***************************************************************************)
DigitChar == <<"0", "1", "2", "3", "4", "5", "6", "7", "8", "9">>

\* the digit a character stands for, 10 when it is no digit
CharDigit(c) == IF \E i \in 0..9 : DigitChar[i + 1] = c
                THEN CHOOSE i \in 0..9 : DigitChar[i + 1] = c ELSE 10

Digits2(n) == <<DigitChar[((n \div 10) % 10) + 1], DigitChar[(n % 10) + 1]>>

Digits4(n) == Digits2(n \div 100) \o Digits2(n % 100)

\* dt.strftime('%Y-%m-%d')
StrftimeYMD(dt) == Digits4(dt.y) \o <<"-">> \o Digits2(dt.m) \o <<"-">> \o Digits2(dt.d)

(***************************************************************************)
(* get_dates, in its two variants.                                         *)
(***************************************************************************)
\* the (start_date, end_date) pair get_dates returns, or the exception it raised
DatesResult(start_dt, end_dt) ==
    IF start_dt = ValueErrorDate \/ end_dt = ValueErrorDate
    THEN Raise("ValueError")
    ELSE Return(PyTuple(<<StrftimeYMD(start_dt), StrftimeYMD(end_dt)>>))

\* Python's truth value of an Optional[datetime]: only None is false.
Truthy(dt) == dt # NoDate

\* utils.get_dates with the end adjustment taken from the day after the shift
UtilsBoostsShiftedDay(first_dose_date, start_dt) ==
    IF Truthy(first_dose_date)
    THEN <<<<0, 42>>, <<0, 14>>>>
    ELSE <<<<0, 1>>, <<3, 31 - AddDays(start_dt, 1).d>>>>

\* what utils.get_dates adds first and second: <<months, days>> each
UtilsBoosts(first_dose_date, start_dt) ==
    IF Truthy(first_dose_date)
    THEN <<<<0, 42>>, <<0, 14>>>>
    ELSE <<<<0, 1>>, <<3, 31 - start_dt.d>>>>

\* utils.get_dates(first_dose_date), with now the value of datetime.now(tz)
UtilsGetDates(first_dose_date, now) ==
    LET start_dt0 == IF first_dose_date = NoDate THEN now ELSE first_dose_date
        boosts    == UtilsBoosts(first_dose_date, start_dt0)
        start_dt  == AddRelativeDelta(start_dt0, boosts[1][1], boosts[1][2])
        end_dt    == AddRelativeDelta(start_dt, boosts[2][1], boosts[2][2])
    IN  DatesResult(start_dt, end_dt)

\* main.get_dates with the two second-dose offsets exchanged
MainBoostsSwappedWeeks(first_dose, start_dt) ==
    IF first_dose
    THEN <<<<0, 1>>, <<3, 31 - start_dt.d>>>>
    ELSE <<<<0, 14>>, <<0, 42>>>>

\* what main.get_dates adds first and second: <<months, days>> each
MainBoosts(first_dose, start_dt) ==
    IF first_dose
    THEN <<<<0, 1>>, <<3, 31 - start_dt.d>>>>
    ELSE <<<<0, 42>>, <<0, 14>>>>

\* main.get_dates(start_dt, first_dose), with now the value of datetime.now(tz)
MainGetDates(start_dt_arg, first_dose, now) ==
    LET start_dt0 == IF start_dt_arg = NoDate THEN now ELSE start_dt_arg
        boosts    == MainBoosts(first_dose, start_dt0)
        start_dt  == AddRelativeDelta(start_dt0, boosts[1][1], boosts[1][2])
        end_dt    == AddRelativeDelta(start_dt, boosts[2][1], boosts[2][2])
    IN  DatesResult(start_dt, end_dt)

(***************************************************************************)
(* The common initial state: nothing called, nothing requested or printed. *)
(***************************************************************************)
NoCall == [fn |-> "none"]
NoRet == [kind |-> "none"]

Init ==
    /\ pc = "idle"
    /\ call = NoCall
    /\ clock = NoDate
    /\ ret = NoRet
    /\ gets = <<>>
    /\ out = <<>>
    /\ data = EmptyDict
    /\ body = NoBody

\* the clock is read only by a call that was given no date
ClockReads(dt) == IF dt = NoDate THEN Dates ELSE {NoDate}

(***************************************************************************)
(* SpecDates: one call of get_dates, in either variant, on any input.      *)
(***************************************************************************)
CallUtilsGetDates ==
    /\ pc = "idle"
    /\ \E first_dose_date \in Dates \cup {NoDate} :
         \E now \in ClockReads(first_dose_date) :
            /\ call' = [fn |-> "utils.get_dates", start_dt |-> first_dose_date]
            /\ clock' = now
            /\ ret' = UtilsGetDates(first_dose_date, now)
    /\ pc' = "done"
    /\ UNCHANGED <<gets, out, data, body>>

CallMainGetDates ==
    /\ pc = "idle"
    /\ \E start_dt \in Dates \cup {NoDate}, first_dose \in BOOLEAN :
         \E now \in ClockReads(start_dt) :
            /\ call' = [fn |-> "main.get_dates", start_dt |-> start_dt,
                        first_dose |-> first_dose]
            /\ clock' = now
            /\ ret' = MainGetDates(start_dt, first_dose, now)
    /\ pc' = "done"
    /\ UNCHANGED <<gets, out, data, body>>

NextDates == CallUtilsGetDates \/ CallMainGetDates

SpecDates == Init /\ [][NextDates]_vars

(***************************************************************************)
(* parse_date (utils.py) and format_date (main.py).                        *)
(***************************************************************************)
\* datetime.strptime(s, '%Y-%m-%dT%H:%M:%S.%fZ'): the datetime, or ValueError
\* when the text does not match or a field is out of range
Strptime(s) ==
    IF s.form # "stamp" THEN Raise("ValueError")
    ELSE LET f == s.stamp
         IN  IF /\ f.y \in 1..9999 /\ f.m \in 1..12
                /\ f.d >= 1 /\ f.d <= DaysInMonth(f.y, f.m)
                /\ f.H \in 0..23 /\ f.M \in 0..59 /\ f.S \in 0..61
                /\ f.us \in 0..999999
             THEN Return(PyDatetime(f))
             ELSE Raise("ValueError")

\* datetime + relativedelta(hours=h): the hours carry into the date
AddHours(dt, h) ==
    LET total == dt.H + h
        date  == AddDays([y |-> dt.y, m |-> dt.m, d |-> dt.d], total \div 24)
    IN  [y |-> date.y, m |-> date.m, d |-> date.d,
         H |-> total % 24, M |-> dt.M, S |-> dt.S, us |-> dt.us]

\* utils.parse_date(dt)
ParseDate(dt) ==
    IF IsInstanceStr(dt)
    THEN LET parsed == Strptime(dt)
         IN  IF parsed.kind = "raise" THEN parsed
             ELSE Return(PyDatetime(AddHours(parsed.val.dt, 8)))
    ELSE Return(dt)

\* dt.strftime('%d/%m/%Y %H%Mh')
StrftimeDMYHM(dt) ==
    Digits2(dt.d) \o <<"/">> \o Digits2(dt.m) \o <<"/">> \o Digits4(dt.y) \o <<" ">>
        \o Digits2(dt.H) \o Digits2(dt.M) \o <<"h">>

\* dt.strftime('%H%Mh')
StrftimeHM(dt) == Digits2(dt.H) \o Digits2(dt.M) \o <<"h">>

\* main.format_date(dt, strftime=strftime)
FormatDate(dt, strftime) ==
    IF IsInstanceStr(dt)
    THEN LET parsed == Strptime(dt)
         IN  IF parsed.kind = "raise" THEN parsed
             ELSE IF strftime THEN Return(PyChars(StrftimeDMYHM(parsed.val.dt)))
             ELSE parsed
    ELSE Return(dt)

(***************************************************************************)
(* SpecParse: one call of parse_date or format_date on any input.          *)
(***************************************************************************)
\* the minutes the stamps are drawn from
StampMinutes == {0, 59}

\* the raw timestamp strings: every month and hour, also out of range ones
Stamps ==
    {PyStamp(y, m, d, H, M, 30, 123456) :
        y \in FirstYear..MaxYear, m \in 1..13, d \in {1, 15, 28, 29, 30, 31, 32},
        H \in 0..24, M \in StampMinutes}

\* what may be passed where a raw timestamp is expected
RawDates == Stamps \cup {PyNone, PyInt(0), PyStr("not-a-date")}

CallParseDate ==
    /\ pc = "idle"
    /\ \E dt \in RawDates :
         /\ call' = [fn |-> "utils.parse_date", dt |-> dt]
         /\ ret' = ParseDate(dt)
    /\ pc' = "done"
    /\ UNCHANGED <<clock, gets, out, data, body>>

CallFormatDate ==
    /\ pc = "idle"
    /\ \E dt \in RawDates, strftime \in BOOLEAN :
         /\ call' = [fn |-> "main.format_date", dt |-> dt, strftime |-> strftime]
         /\ ret' = FormatDate(dt, strftime)
    /\ pc' = "done"
    /\ UNCHANGED <<clock, gets, out, data, body>>

NextParse == CallParseDate \/ CallFormatDate

SpecParse == Init /\ [][NextParse]_vars

(***************************************************************************)
(* The record constructors of models.py.                                   *)
(***************************************************************************)
\* the members of the enum VaccineType
VaccineTypeMembers == {"Pfizer_Comirnaty", "Moderna"}

VaccineTypeValue(member) == IF member = "Pfizer_Comirnaty" THEN 1 ELSE 2

PyVaccineType(member) ==
    [type |-> "VaccineType", member |-> member, int |-> VaccineTypeValue(member)]

\* text.replace('/', '_'), for the vaccine names the inputs are drawn from
ReplaceSlash(text) == IF text = "Pfizer/Comirnaty" THEN "Pfizer_Comirnaty" ELSE text

RaiseKey(key) == [kind |-> "raise", exc |-> "KeyError", key |-> key]

\* VaccineType[raw.replace('/', '_')]
VaccineTypeLookup(raw) ==
    IF ~IsInstanceStr(raw) THEN Raise("AttributeError")
    ELSE IF ReplaceSlash(raw.text) \in VaccineTypeMembers
    THEN Return(PyVaccineType(ReplaceSlash(raw.text)))
    ELSE RaiseKey(ReplaceSlash(raw.text))

\* what a constructor does with a popped value before storing it
Convert(conv, raw) ==
    IF conv = "parse_date" THEN ParseDate(raw)
    ELSE IF conv = "VaccineType" THEN VaccineTypeLookup(raw)
    ELSE Return(raw)

Pop(key, attr, default, conv) ==
    [key |-> key, attr |-> attr, default |-> default, conv |-> conv]

\* Location.__init__ with hci_code popped with a default of None
LocationPopsOptionalCode ==
    <<Pop("name", "name", FALSE, "none"),
      Pop("hci_code", "hci_code", TRUE, "none"),
      Pop("address", "address", TRUE, "none"),
      Pop("latitude", "latitude", TRUE, "none"),
      Pop("longitude", "longitude", TRUE, "none"),
      Pop("earliestSlot", "earliest_slot", FALSE, "parse_date"),
      Pop("priority", "priority", TRUE, "none"),
      Pop("minInterval", "min_interval", TRUE, "none"),
      Pop("maxInterval", "max_interval", TRUE, "none"),
      Pop("minClinicInterval", "min_clinic_interval", TRUE, "none"),
      Pop("maxClinicInterval", "max_clinic_interval", TRUE, "none"),
      Pop("vaccineType", "vaccine_type", FALSE, "VaccineType")>>

\* the pops of Location.__init__, in order: the key, the attribute it sets,
\* whether the pop has a default of None, and the conversion applied
LocationPops ==
    <<Pop("name", "name", FALSE, "none"),
      Pop("hci_code", "hci_code", FALSE, "none"),
      Pop("address", "address", TRUE, "none"),
      Pop("latitude", "latitude", TRUE, "none"),
      Pop("longitude", "longitude", TRUE, "none"),
      Pop("earliestSlot", "earliest_slot", FALSE, "parse_date"),
      Pop("priority", "priority", TRUE, "none"),
      Pop("minInterval", "min_interval", TRUE, "none"),
      Pop("maxInterval", "max_interval", TRUE, "none"),
      Pop("minClinicInterval", "min_clinic_interval", TRUE, "none"),
      Pop("maxClinicInterval", "max_clinic_interval", TRUE, "none"),
      Pop("vaccineType", "vaccine_type", FALSE, "VaccineType")>>

\* the pops of TimeSlot.__init__, in order
TimeSlotPops ==
    <<Pop("id", "id", TRUE, "none"),
      Pop("time", "time", TRUE, "parse_date"),
      Pop("hasCapacity", "has_capacity", FALSE, "none")>>

Attrs(pops) == {pops[i].attr : i \in 1..Len(pops)}

RECURSIVE RunPops(_, _, _, _)
\* the pops from the i-th on, run in order on dict d and object self: a pop
\* without default of a key d lacks raises KeyError and leaves d as it is, any
\* other pop removes the key; the first exception ends the constructor
RunPops(pops, i, d, self) ==
    IF i > Len(pops) THEN [ret |-> Return(self), data |-> d]
    ELSE LET p == pops[i]
         IN  IF d[p.key] = Absent /\ ~p.default THEN [ret |-> RaiseKey(p.key), data |-> d]
             ELSE LET raw  == IF d[p.key] = Absent THEN PyNone ELSE d[p.key]
                      d2   == [d EXCEPT ![p.key] = Absent]
                      conv == Convert(p.conv, raw)
                  IN  IF conv.kind = "raise" THEN [ret |-> conv, data |-> d2]
                      ELSE RunPops(pops, i + 1, d2, [self EXCEPT !.attrs[p.attr] = conv.val])

\* Location(api, data): the Location or the exception, and data as it is left
LocationInit(d) ==
    RunPops(LocationPops, 1, d,
            [type |-> "Location", attrs |-> [a \in Attrs(LocationPops) |-> Absent]])

\* TimeSlot(api, data): the TimeSlot or the exception, and data as it is left
TimeSlotInit(d) ==
    RunPops(TimeSlotPops, 1, d,
            [type |-> "TimeSlot", attrs |-> [a \in Attrs(TimeSlotPops) |-> Absent]])

(***************************************************************************)
(* SpecBuild: one construction of a Location or a TimeSlot from any raw    *)
(* object.                                                                 *)
(***************************************************************************)
\* a raw timestamp the server may send
GoodStamp == PyStamp(MaxYear, 12, 31, 20, 15, 0, 0)

\* what a key of a raw object may hold when the object has the key
RawValues(key) ==
    CASE key \in {"name", "hci_code", "address"} -> {PyStr(key)}
      [] key \in {"earliestSlot", "time"} -> {PyNone, GoodStamp, PyStr("not-a-date")}
      [] key = "vaccineType" ->
            {PyNone, PyStr("Pfizer/Comirnaty"), PyStr("Moderna"), PyStr("Sinovac")}
      [] key = "hasCapacity" -> {PyBool(TRUE), PyBool(FALSE)}
      [] OTHER -> {PyInt(1)}

\* what a key of a raw object may hold, or Absent
RawChoices(key) == RawValues(key) \cup {Absent}

\* the keys of a raw location that hold one sample value when present
PlainLocationKeys == LocationKeys \ {"earliestSlot", "vaccineType"}

\* the raw location holding the plain keys ks, and es and vt (or Absent) under
\* earliestSlot and vaccineType
RawLocation(ks, es, vt) ==
    [k \in DictKeys |->
        IF k = "earliestSlot" THEN es
        ELSE IF k = "vaccineType" THEN vt
        ELSE IF k \in ks THEN CHOOSE v \in RawValues(k) : TRUE
        ELSE Absent]

\* the raw slot holding id, time and hasCapacity as given (or Absent)
RawSlot(id, time, cap) ==
    [k \in DictKeys |->
        IF k = "id" THEN id
        ELSE IF k = "time" THEN time
        ELSE IF k = "hasCapacity" THEN cap
        ELSE Absent]

NewLocation ==
    /\ pc = "idle"
    /\ \E ks \in SUBSET PlainLocationKeys, es \in RawChoices("earliestSlot"),
          vt \in RawChoices("vaccineType") :
         LET d == RawLocation(ks, es, vt)
         IN  /\ call' = [fn |-> "Location", data |-> d]
             /\ ret' = LocationInit(d).ret
             /\ data' = LocationInit(d).data
    /\ pc' = "done"
    /\ UNCHANGED <<clock, gets, out, body>>

NewTimeSlot ==
    /\ pc = "idle"
    /\ \E id \in RawChoices("id"), time \in RawChoices("time"),
          cap \in RawChoices("hasCapacity") :
         LET d == RawSlot(id, time, cap)
         IN  /\ call' = [fn |-> "TimeSlot", data |-> d]
             /\ ret' = TimeSlotInit(d).ret
             /\ data' = TimeSlotInit(d).data
    /\ pc' = "done"
    /\ UNCHANGED <<clock, gets, out, body>>

NextBuild == NewLocation \/ NewTimeSlot

SpecBuild == Init /\ [][NextBuild]_vars

(***************************************************************************)
(* The API client of models.py.                                            *)
(***************************************************************************)
\* Group(n): the members of the enum Group have the values 1..4
IsGroup(n) == n \in 1..4

\* str(b), as '{first_dose}'.format(first_dose=b) renders it
FormatBool(b) == IF b THEN "True" ELSE "False"

\* Routes.LOCATIONS.format(start_date=, end_date=, group_id=)
LocationsUrl(start_date, end_date, group_id) ==
    [route |-> "LOCATIONS", startDate |-> start_date, endDate |-> end_date,
     patientGroupId |-> group_id]

\* Routes.AVAILABILITY.format(hci_code=, start_date=, end_date=, first_dose=)
AvailabilityUrl(hci_code, start_date, end_date, first_dose) ==
    [route |-> "AVAILABILITY", hci_code |-> hci_code, startDate |-> start_date,
     endDate |-> end_date, isFirstAppt |-> FormatBool(first_dose)]

\* API.request with the GET sent a second time
ApiRequestTwice(sent, url) == Append(Append(sent, url), url)

\* API.request: session.get(url), once; sent are the GETs issued so far
ApiRequest(sent, url) == Append(sent, url)

\* the request API.get_locations issues for the window dates
GetLocationsUrl(dates, group) ==
    LocationsUrl(dates.val.items[1], dates.val.items[2], group)

\* the request API.get_date_slots issues for the window dates
GetDateSlotsUrl(dates, hci_code, first_dose_date) ==
    AvailabilityUrl(hci_code, dates.val.items[1], dates.val.items[2],
                    Truthy(first_dose_date))

RECURSIVE BuildLocationsFrom(_, _, _)
\* [Location(self, x) for x in locations], from the i-th element on, built
\* being the Locations so far: the first exception ends the comprehension
BuildLocationsFrom(items, i, built) ==
    IF i > Len(items) THEN Return(PyList(built))
    ELSE LET loc == LocationInit(items[i]).ret
         IN  IF loc.kind = "raise" THEN loc
             ELSE BuildLocationsFrom(items, i + 1, Append(built, loc.val))

\* what API.get_locations returns for the JSON array locations
BuildLocations(locations) == BuildLocationsFrom(locations.items, 1, <<>>)

RECURSIVE BuildSlotsFrom(_, _, _)
\* [TimeSlot(self, x) for x in v], from the i-th element on
BuildSlotsFrom(v, i, built) ==
    IF i > Len(v) THEN Return(PyList(built))
    ELSE LET slot == TimeSlotInit(v[i]).ret
         IN  IF slot.kind = "raise" THEN slot
             ELSE BuildSlotsFrom(v, i + 1, Append(built, slot.val))

RECURSIVE BuildSlotMapReversedFrom(_, _, _)
\* the dict comprehension of API.get_date_slots filling the mapping back to front
BuildSlotMapReversedFrom(entries, i, built) ==
    IF i > Len(entries) THEN Return(PyDict(built))
    ELSE LET slots == BuildSlotsFrom(entries[i].val, 1, <<>>)
         IN  IF slots.kind = "raise" THEN slots
             ELSE BuildSlotMapReversedFrom(entries, i + 1,
                      <<[key |-> entries[i].key, val |-> slots.val.items]>> \o built)

RECURSIVE BuildSlotMapFrom(_, _, _)
\* {k: [TimeSlot(self, x) for x in v] for k, v in r.items()}, from the i-th
\* entry on: keys are inserted in the order of r
BuildSlotMapFrom(entries, i, built) ==
    IF i > Len(entries) THEN Return(PyDict(built))
    ELSE LET slots == BuildSlotsFrom(entries[i].val, 1, <<>>)
         IN  IF slots.kind = "raise" THEN slots
             ELSE BuildSlotMapFrom(entries, i + 1,
                      Append(built, [key |-> entries[i].key, val |-> slots.val.items]))

\* what API.get_date_slots returns for the JSON object r
BuildSlotMap(r) == BuildSlotMapFrom(r.entries, 1, <<>>)

(***************************************************************************)
(* main.py: the tables and the interactive flow.                           *)
(***************************************************************************)
\* what reaches the terminal: a printed line, a prompt of input(), a table
Line(text) == [ev |-> "print", text |-> text]
DatesLine(keys) == [ev |-> "print", text |-> "Dates", keys |-> keys]
Prompt(text) == [ev |-> "input", text |-> text]

\* pretty_print(header, values): the table written, its layout left out
PrettyPrint(header, values) == [ev |-> "table", header |-> header, rows |-> values]

\* the characters cs are decimal digits only, at least one
IsDigits(cs) == Len(cs) > 0 /\ \A i \in 1..Len(cs) : CharDigit(cs[i]) < 10

RECURSIVE DigitsValue(_, _)
\* the number the first n of the digits cs write
DigitsValue(cs, n) ==
    IF n = 0 THEN 0 ELSE DigitsValue(cs, n - 1) * 10 + CharDigit(cs[n])

\* int(text): digits with an optional sign, ValueError otherwise
ParseInt(cs) ==
    IF IsDigits(cs) THEN Return(PyInt(DigitsValue(cs, Len(cs))))
    ELSE IF Len(cs) > 1 /\ cs[1] \in {"-", "+"} /\ IsDigits(Tail(cs))
    THEN Return(PyInt((IF cs[1] = "-" THEN -1 ELSE 1) * DigitsValue(Tail(cs), Len(cs) - 1)))
    ELSE Raise("ValueError")

\* Group(int(text)): ValueError for a text that is no number and for a
\* number that is no member of Group
ParseGroup(cs) ==
    IF ParseInt(cs).kind = "raise" THEN ParseInt(cs)
    ELSE IF IsGroup(ParseInt(cs).val.int) THEN ParseInt(cs)
    ELSE Raise("ValueError")

\* group.name
GroupName(n) ==
    CASE n = 1 -> "GENERAL"
      [] n = 2 -> "MOM_FOREIGN_WORKER"
      [] n = 3 -> "MOE_STUDENT_BELOW_18"
      [] n = 4 -> "MOE_STUDENT_ABOVE_18"

\* main() with a dose that is no number read as the first dose
DoseOfDefaultFirst(cs) == IF ParseInt(cs).kind = "raise" THEN 1 ELSE ParseInt(cs).val.int

\* the dose main() reads: int(text), or -1 when that raises ValueError
DoseOf(cs) == IF ParseInt(cs).kind = "raise" THEN -1 ELSE ParseInt(cs).val.int

\* a text typed as a date: "d/m/y" with the fields given, or another text
DateText(form, d, m, y) == [form |-> form, d |-> d, m |-> m, y |-> y]

\* datetime.strptime(text, '%d/%m/%Y')
StrptimeDMY(text) ==
    IF /\ text.form = "d/m/y"
       /\ text.y \in 1..9999 /\ text.m \in 1..12
       /\ text.d >= 1 /\ text.d <= DaysInMonth(text.y, text.m)
    THEN Return(PyDatetime([y |-> text.y, m |-> text.m, d |-> text.d]))
    ELSE Raise("ValueError")

\* x[key] on a raw object
GetItem(x, key) == IF x[key] = Absent THEN RaiseKey(key) ELSE Return(x[key])

\* Python's truth value of a JSON value
TruthyValue(v) ==
    CASE v.type = "NoneType" -> FALSE
      [] v.type = "int" -> v.int # 0
      [] v.type = "bool" -> v.bool
      [] OTHER -> TRUE

\* dt.timestamp() as <<days since 1970-01-01, seconds of the day, microseconds>>
Timestamp(dt) ==
    <<ToOrdinal([y |-> dt.y, m |-> dt.m, d |-> dt.d]) - 719163,
      dt.H * 3600 + dt.M * 60 + dt.S, dt.us>>

\* 10**10 seconds, in the same form
TenToTheTen == <<115740, 64000, 0>>

\* the sort key of print_locations for the raw location x
SortKey(x) ==
    IF GetItem(x, "earliestSlot").kind = "raise" THEN GetItem(x, "earliestSlot")
    ELSE IF ~TruthyValue(x["earliestSlot"]) THEN [kind |-> "key", key |-> TenToTheTen]
    ELSE LET dt == FormatDate(x["earliestSlot"], FALSE)
         IN  IF dt.kind = "raise" THEN dt
             ELSE IF dt.val.type # "datetime" THEN Raise("AttributeError")
             ELSE [kind |-> "key", key |-> Timestamp(dt.val.dt)]

\* a < b for two sort keys
KeyLess(a, b) ==
    \/ a[1] < b[1]
    \/ a[1] = b[1] /\ a[2] < b[2]
    \/ a[1] = b[1] /\ a[2] = b[2] /\ a[3] < b[3]

RECURSIVE InsertSorted(_, _, _)
\* xs, sorted, with x put after the last element whose key is not greater
InsertSorted(xs, x, i) ==
    IF i > Len(xs) THEN Append(xs, x)
    ELSE IF KeyLess(SortKey(x).key, SortKey(xs[i]).key)
    THEN SubSeq(xs, 1, i - 1) \o <<x>> \o SubSeq(xs, i, Len(xs))
    ELSE InsertSorted(xs, x, i + 1)

RECURSIVE SortedFrom(_, _, _)
\* sorted(locations, key=...): stable; the first key that raises ends it
SortedFrom(items, i, done) ==
    IF i > Len(items) THEN Return(PyList(done))
    ELSE IF SortKey(items[i]).kind = "raise" THEN SortKey(items[i])
    ELSE SortedFrom(items, i + 1, InsertSorted(done, items[i], 1))

\* the row of print_locations for the raw location loc
LocationRow(loc) ==
    IF GetItem(loc, "name").kind = "raise" THEN GetItem(loc, "name")
    ELSE IF GetItem(loc, "hci_code").kind = "raise" THEN GetItem(loc, "hci_code")
    ELSE IF GetItem(loc, "earliestSlot").kind = "raise" THEN GetItem(loc, "earliestSlot")
    ELSE IF FormatDate(loc["earliestSlot"], TRUE).kind = "raise"
    THEN FormatDate(loc["earliestSlot"], TRUE)
    ELSE IF GetItem(loc, "vaccineType").kind = "raise" THEN GetItem(loc, "vaccineType")
    ELSE Return(PyTuple(<<loc["name"], loc["hci_code"],
                          FormatDate(loc["earliestSlot"], TRUE).val, loc["vaccineType"]>>))

\* the row of print_details for the raw slot i
SlotRow(i) ==
    IF GetItem(i, "time").kind = "raise" THEN GetItem(i, "time")
    ELSE IF FormatDate(i["time"], FALSE).kind = "raise" THEN FormatDate(i["time"], FALSE)
    ELSE IF FormatDate(i["time"], FALSE).val.type # "datetime" THEN Raise("AttributeError")
    ELSE IF GetItem(i, "count").kind = "raise" THEN GetItem(i, "count")
    ELSE IF GetItem(i, "capacity").kind = "raise" THEN GetItem(i, "capacity")
    ELSE Return(PyTuple(<<PyChars(StrftimeHM(FormatDate(i["time"], FALSE).val.dt)),
                          i["count"], i["capacity"]>>))

RECURSIVE LocationRowsFrom(_, _, _)
\* the rows of the locations table, one for each location of items from the
\* i-th on: the first row that raises ends the loop
LocationRowsFrom(items, i, rows) ==
    IF i > Len(items) THEN Return(PyList(rows))
    ELSE IF LocationRow(items[i]).kind = "raise" THEN LocationRow(items[i])
    ELSE LocationRowsFrom(items, i + 1, Append(rows, LocationRow(items[i]).val))

RECURSIVE SlotRowsFrom(_, _, _)
\* the rows of the slots table, one for each slot of items from the i-th on:
\* the first row that raises ends the loop
SlotRowsFrom(items, i, rows) ==
    IF i > Len(items) THEN Return(PyList(rows))
    ELSE IF SlotRow(items[i]).kind = "raise" THEN SlotRow(items[i])
    ELSE SlotRowsFrom(items, i + 1, Append(rows, SlotRow(items[i]).val))

\* print_locations after its GET: the table it prints for the JSON array
\* locations, or the exception that ends it
LocationsTable(locations) ==
    LET sorted == SortedFrom(locations.items, 1, <<>>)
    IN  IF sorted.kind = "raise" THEN sorted
        ELSE LET values == LocationRowsFrom(sorted.val.items, 1, <<>>)
             IN  IF values.kind = "raise" THEN values
                 ELSE Return(PrettyPrint(
                          <<"Location", "ID", "Earliest Slot", "Vaccine Type">>,
                          values.val.items))

\* the keys of the dict availability, in order
DictKeysOf(availability) ==
    [i \in 1..Len(availability.entries) |-> availability.entries[i].key]

\* availability[date]
DictGet(availability, date) ==
    IF \E i \in 1..Len(availability.entries) : availability.entries[i].key = date
    THEN Return(PyList(
             availability.entries[CHOOSE i \in 1..Len(availability.entries) :
                                     availability.entries[i].key = date].val))
    ELSE RaiseKey(date)

\* print_details after the date is picked: the table it prints for the slots
\* chosen, or the exception that ends it
SlotsTable(chosen) ==
    LET values == SlotRowsFrom(chosen, 1, <<>>)
    IN  IF values.kind = "raise" THEN values
        ELSE Return(PrettyPrint(<<"Time", "Availability">>, values.val.items))

\* requests.get(url), once; sent are the GETs issued so far
RequestsGet(sent, url) == Append(sent, url)

(***************************************************************************)
(* What the server may answer.                                             *)
(***************************************************************************)
\* Most elements of a JSON array in a response.
MaxItems == 2

\* the ways a GET may fail: session.get raises, or r.json() does
Failures == {"ConnectionError", "JSONDecodeError"}

\* a raw timestamp earlier than GoodStamp
EarlyStamp == PyStamp(FirstYear, 2, 28, 16, 30, 0, 0)

\* raw locations: complete ones, one with a null earliestSlot, one without it
LocationSamples ==
    {RawLocation(PlainLocationKeys, GoodStamp, PyStr("Moderna")),
     RawLocation(PlainLocationKeys, EarlyStamp, PyStr("Pfizer/Comirnaty")),
     RawLocation({"name", "hci_code"}, PyNone, PyStr("Moderna")),
     RawLocation({"name", "hci_code"}, Absent, PyStr("Moderna"))}

\* raw slots as models.TimeSlot reads them: a complete one, one with only
\* hasCapacity, one without it
SlotSamples ==
    {RawSlot(PyInt(1), GoodStamp, PyBool(TRUE)),
     RawSlot(Absent, Absent, PyBool(FALSE)),
     RawSlot(PyInt(1), EarlyStamp, Absent)}

\* the sequences over S of length at most n
SeqsUpTo(S, n) == UNION {[1..k -> S] : k \in 0..n}

\* the JSON arrays of locations
LocationBodies == {PyList(items) : items \in SeqsUpTo(LocationSamples, MaxItems)}

\* the date keys of an availability response
DateKeys == {"2021-06-04", "2021-06-05"}

\* the orders in which a response may hold some of the date keys
DateKeyOrders == {ks \in SeqsUpTo(DateKeys, Cardinality(DateKeys)) :
                     \A i, j \in 1..Len(ks) : i # j => ks[i] # ks[j]}

\* the JSON objects mapping date keys to arrays of the slots in S
AvailabilityBodies(S) ==
    {PyDict([i \in 1..Len(ks) |-> [key |-> ks[i], val |-> vs[i]]]) :
        <<ks, vs>> \in {p \in DateKeyOrders \X SeqsUpTo(SeqsUpTo(S, MaxItems),
                                                        Cardinality(DateKeys)) :
                           Len(p[1]) = Len(p[2])}}

\* the dates the clock shows and the first-dose dates passed in
SampleDates == {[y |-> MaxYear, m |-> 11, d |-> 29], [y |-> FirstYear, m |-> 1, d |-> 31]}

(***************************************************************************)
(* Spec: calls of the API client, and runs of main().                      *)
(***************************************************************************)
\* API.get_locations(group), up to its GET
ApiGetLocations ==
    /\ pc = "idle"
    /\ \E group \in 1..4, now \in SampleDates :
         LET dates == UtilsGetDates(NoDate, now)
         IN  /\ call' = [fn |-> "API.get_locations", group |-> group]
             /\ clock' = now
             /\ IF dates.kind = "raise"
                THEN /\ ret' = dates /\ pc' = "done" /\ gets' = gets
                ELSE /\ gets' = ApiRequest(gets, GetLocationsUrl(dates, group))
                     /\ pc' = "api_wait" /\ ret' = ret
    /\ UNCHANGED <<out, data, body>>

\* API.get_date_slots(hci_code, first_dose_date) called as fn, up to its GET
GetDateSlotsStart(fn, hci_code, first_dose_date, now) ==
    LET dates == UtilsGetDates(first_dose_date, now)
    IN  /\ call' = [fn |-> fn, hci_code |-> hci_code, first_dose_date |-> first_dose_date]
        /\ clock' = now
        /\ IF dates.kind = "raise"
           THEN /\ ret' = dates /\ pc' = "done" /\ gets' = gets
           ELSE /\ gets' = ApiRequest(gets, GetDateSlotsUrl(dates, hci_code, first_dose_date))
                /\ pc' = "api_wait" /\ ret' = ret
        /\ UNCHANGED <<out, data, body>>

ApiGetDateSlots ==
    /\ pc = "idle"
    /\ \E first_dose_date \in SampleDates \cup {NoDate} :
         \E now \in (IF first_dose_date = NoDate THEN SampleDates ELSE {NoDate}) :
            GetDateSlotsStart("API.get_date_slots", "C1", first_dose_date, now)

\* Location.get_date_slots(first_dose_date), on a Location built before
LocationGetDateSlots ==
    /\ pc = "idle"
    /\ \E raw \in LocationSamples, first_dose_date \in SampleDates \cup {NoDate} :
         \E now \in (IF first_dose_date = NoDate THEN SampleDates ELSE {NoDate}) :
            /\ LocationInit(raw).ret.kind = "return"
            /\ GetDateSlotsStart("Location.get_date_slots",
                                 LocationInit(raw).ret.val.attrs["hci_code"].text,
                                 first_dose_date, now)

\* the GET of API.request fails: the exception leaves the operation
ApiRecvFailure ==
    /\ pc = "api_wait"
    /\ \E exc \in Failures : ret' = Raise(exc)
    /\ pc' = "done"
    /\ UNCHANGED <<call, clock, gets, out, data, body>>

\* API.get_locations receives the JSON array and builds the Locations
ApiRecvLocations ==
    /\ pc = "api_wait"
    /\ call.fn = "API.get_locations"
    /\ \E r \in LocationBodies :
         /\ body' = r
         /\ ret' = BuildLocations(r)
    /\ pc' = "done"
    /\ UNCHANGED <<call, clock, gets, out, data>>

\* API.get_date_slots receives the JSON object and builds the mapping
ApiRecvAvailability ==
    /\ pc = "api_wait"
    /\ call.fn \in {"API.get_date_slots", "Location.get_date_slots"}
    /\ \E r \in AvailabilityBodies(SlotSamples) :
         /\ body' = r
         /\ ret' = BuildSlotMap(r)
    /\ pc' = "done"
    /\ UNCHANGED <<call, clock, gets, out, data>>

NextApi ==
    \/ ApiGetLocations
    \/ ApiGetDateSlots
    \/ LocationGetDateSlots
    \/ ApiRecvFailure
    \/ ApiRecvLocations
    \/ ApiRecvAvailability

\* what the user may type at the prompts of main()
GroupInputs == {<<"1">>, <<"4">>, <<"0">>, <<"a", "b", "c">>}
LocationInputs == {"C1"}
DoseInputs == {<<"1">>, <<"2">>, <<"3">>, <<"x">>, <<>>}
FirstDoseInputs ==
    {DateText("d/m/y", 10, 1, MaxYear), DateText("d/m/y", 31, 2, MaxYear),
     DateText("other", 0, 0, 0)}
DateInputs == {"2021-06-04", "2021-06-06"}

\* raw slots as main.print_details reads them: a complete one, one whose
\* time is null
MainSlotSamples ==
    {[RawSlot(Absent, GoodStamp, Absent) EXCEPT !["count"] = PyInt(3),
                                                 !["capacity"] = PyInt(10)],
     [RawSlot(Absent, PyNone, Absent) EXCEPT !["count"] = PyInt(0),
                                              !["capacity"] = PyInt(10)]}

\* main() starts: get_locations() lists the groups and waits for a number
MainStart ==
    /\ pc = "idle"
    /\ call' = [fn |-> "main", inputs |-> <<>>, loc_id |-> "", date |-> NoDate]
    /\ out' = <<Line("Which group?"), Line("1: GENERAL"), Line("2: MOM_FOREIGN_WORKER"),
                Line("3: MOE_STUDENT_BELOW_18"), Line("4: MOE_STUDENT_ABOVE_18"),
                Prompt("")>>
    /\ pc' = "ask_group"
    /\ UNCHANGED <<clock, ret, gets, data, body>>

\* the input read at prompt kind, added to those main() has read
Read(kind, text) == [call EXCEPT !.inputs = Append(@, [kind |-> kind, text |-> text])]

\* get_locations() reads the group: an invalid one ends main() by ExitNow,
\* a valid one is printed and print_locations(group) issues its GET
ReadGroup ==
    /\ pc = "ask_group"
    /\ \E text \in GroupInputs, now \in SampleDates :
         LET group == ParseGroup(text)
             dates == MainGetDates(NoDate, TRUE, now)
         IN  /\ call' = Read("group", text)
             /\ IF group.kind = "raise"
                THEN /\ out' = Append(out, Line("Invalid group ID"))
                     /\ ret' = Return(PyNone)
                     /\ pc' = "done"
                     /\ UNCHANGED <<clock, gets>>
                ELSE /\ out' = out \o <<Line(GroupName(group.val.int)), Line("")>>
                     /\ clock' = now
                     /\ IF dates.kind = "raise"
                        THEN /\ ret' = dates /\ pc' = "crashed" /\ gets' = gets
                        ELSE /\ gets' = RequestsGet(gets, GetLocationsUrl(dates, group.val.int))
                             /\ pc' = "await_locations" /\ ret' = ret
    /\ UNCHANGED <<data, body>>

\* a GET of main.py fails: nothing catches the exception, main() ends with it
MainRecvFailure ==
    /\ pc \in {"await_locations", "await_availability"}
    /\ \E exc \in Failures : ret' = Raise(exc)
    /\ pc' = "crashed"
    /\ UNCHANGED <<call, clock, gets, out, data, body>>

\* print_locations receives the JSON array and prints the table; main() then
\* asks for the location
MainRecvLocations ==
    /\ pc = "await_locations"
    /\ \E r \in LocationBodies :
         LET table == LocationsTable(r)
         IN  /\ body' = r
             /\ IF table.kind = "raise"
                THEN /\ ret' = table /\ pc' = "crashed" /\ out' = out
                ELSE /\ out' = out \o <<table.val, Line(""), Prompt("Location ID: ")>>
                     /\ pc' = "ask_location" /\ ret' = ret
    /\ UNCHANGED <<call, clock, gets, data>>

\* main() reads the location and asks for the dose
ReadLocation ==
    /\ pc = "ask_location"
    /\ \E text \in LocationInputs :
         call' = [Read("location", text) EXCEPT !.loc_id = text]
    /\ out' = Append(out, Prompt("1: First Dose\n2: Second Dose\nDose number: "))
    /\ pc' = "ask_dose"
    /\ UNCHANGED <<clock, ret, gets, data, body>>

\* print_details(hci_code, start_dt, first_dose), up to its GET
PrintDetailsStart(hci_code, start_dt, first_dose, now) ==
    LET dates == MainGetDates(start_dt, first_dose, now)
    IN  /\ clock' = now
        /\ IF dates.kind = "raise"
           THEN /\ ret' = dates /\ pc' = "crashed" /\ gets' = gets
           ELSE /\ gets' = RequestsGet(gets,
                               AvailabilityUrl(hci_code, dates.val.items[1],
                                               dates.val.items[2], first_dose))
                /\ pc' = "await_availability" /\ ret' = ret

\* main() reads the dose: 1 goes on to print_details, 2 asks for the date of
\* the first dose, anything else ends main()
ReadDose ==
    /\ pc = "ask_dose"
    /\ \E text \in DoseInputs, now \in SampleDates :
         /\ call' = Read("dose", text)
         /\ IF DoseOf(text) = 1
            THEN /\ PrintDetailsStart(call.loc_id, NoDate, TRUE, now)
                 /\ out' = out
            ELSE IF DoseOf(text) = 2
            THEN /\ out' = Append(out, Prompt("Date of first dose in DD/MM/YYYY format: "))
                 /\ pc' = "ask_first_dose"
                 /\ UNCHANGED <<clock, ret, gets>>
            ELSE /\ out' = Append(out, Line("Invalid input"))
                 /\ ret' = Return(PyNone)
                 /\ pc' = "done"
                 /\ UNCHANGED <<clock, gets>>
    /\ UNCHANGED <<data, body>>

\* main() reads the date of the first dose: a date goes on to print_details,
\* anything else ends main()
ReadFirstDose ==
    /\ pc = "ask_first_dose"
    /\ \E text \in FirstDoseInputs :
         LET date == StrptimeDMY(text)
         IN  IF date.kind = "raise"
             THEN /\ call' = Read("first_dose", text)
                  /\ out' = Append(out, Line("Invalid input"))
                  /\ ret' = Return(PyNone)
                  /\ pc' = "done"
                  /\ UNCHANGED <<clock, gets>>
             ELSE /\ call' = [Read("first_dose", text) EXCEPT !.date = date.val.dt]
                  /\ PrintDetailsStart(call.loc_id, date.val.dt, FALSE, NoDate)
                  /\ out' = out
    /\ UNCHANGED <<data, body>>

\* print_details receives the JSON object: with no dates it says so and
\* returns, otherwise it lists the dates and asks for one
MainRecvAvailability ==
    /\ pc = "await_availability"
    /\ \E r \in AvailabilityBodies(MainSlotSamples) :
         /\ body' = r
         /\ IF Len(r.entries) = 0
            THEN /\ out' = Append(out, Line("No available timeslots"))
                 /\ ret' = Return(PyNone)
                 /\ pc' = "done"
            ELSE /\ out' = out \o <<DatesLine(DictKeysOf(r)),
                                    Prompt("Pick a date from above: ")>>
                 /\ pc' = "ask_date" /\ ret' = ret
    /\ UNCHANGED <<call, clock, gets, data>>

\* print_details reads the date: for a date of the response it prints the
\* table of its slots, for any other text 'Invalid choice'
ReadDate ==
    /\ pc = "ask_date"
    /\ \E text \in DateInputs :
         LET chosen == DictGet(body, text)
             table  == SlotsTable(chosen.val.items)
         IN  /\ call' = Read("date", text)
             /\ IF chosen.kind = "raise"
                THEN /\ out' = out \o <<Line(""), Line("Invalid choice")>>
                     /\ ret' = Return(PyNone)
                     /\ pc' = "done"
                ELSE IF table.kind = "raise"
                THEN /\ out' = Append(out, Line(""))
                     /\ ret' = table
                     /\ pc' = "crashed"
                ELSE /\ out' = out \o <<Line(""), table.val>>
                     /\ ret' = Return(PyNone)
                     /\ pc' = "done"
    /\ UNCHANGED <<clock, gets, data, body>>

NextMain ==
    \/ MainStart
    \/ ReadGroup
    \/ MainRecvFailure
    \/ MainRecvLocations
    \/ ReadLocation
    \/ ReadDose
    \/ ReadFirstDose
    \/ MainRecvAvailability
    \/ ReadDate

Spec == Init /\ [][NextApi \/ NextMain]_vars

(***************************************************************************)
(* Calendar rules stated day by day, for the properties of get_dates.      *)
(***************************************************************************)
\* the first day of the calendar month after that of dt
FirstOfNextMonth(dt) ==
    IF dt.m < 12 THEN [y |-> dt.y, m |-> dt.m + 1, d |-> 1]
    ELSE [y |-> dt.y + 1, m |-> 1, d |-> 1]

RECURSIVE PlusDays(_, _)
\* the calendar day n days after dt, walking month by month
PlusDays(dt, n) ==
    IF dt.d + n <= DaysInMonth(dt.y, dt.m) THEN [y |-> dt.y, m |-> dt.m, d |-> dt.d + n]
    ELSE PlusDays(FirstOfNextMonth(dt), n - (DaysInMonth(dt.y, dt.m) - dt.d) - 1)

\* the calendar day after dt
NextDay(dt) == PlusDays(dt, 1)

\* dt moved n calendar months on, its day clamped to the length of that month
PlusMonthsClamped(dt, n) ==
    LET idx == dt.y * 12 + (dt.m - 1) + n
        yy  == idx \div 12
        mm  == (idx % 12) + 1
    IN  [y |-> yy, m |-> mm,
         d |-> IF dt.d > DaysInMonth(yy, mm) THEN DaysInMonth(yy, mm) ELSE dt.d]

\* dt is a calendar day strictly before du
DateBefore(dt, du) ==
    \/ dt.y < du.y
    \/ dt.y = du.y /\ dt.m < du.m
    \/ dt.y = du.y /\ dt.m = du.m /\ dt.d < du.d

\* s has the form YYYY-MM-DD
IsYMD(s) ==
    /\ Len(s) = 10
    /\ s[5] = "-" /\ s[8] = "-"
    /\ \A i \in {1, 2, 3, 4, 6, 7, 9, 10} : CharDigit(s[i]) < 10

\* the calendar day a string of the form YYYY-MM-DD names
ReadYMD(s) ==
    [y |-> CharDigit(s[1]) * 1000 + CharDigit(s[2]) * 100 + CharDigit(s[3]) * 10
            + CharDigit(s[4]),
     m |-> CharDigit(s[6]) * 10 + CharDigit(s[7]),
     d |-> CharDigit(s[9]) * 10 + CharDigit(s[10])]

\* a call of get_dates has returned or raised
GetDatesDone == pc = "done" /\ call.fn \in {"utils.get_dates", "main.get_dates"}

\* the date the offsets of the finished call were applied to
Reference == IF call.start_dt = NoDate THEN clock ELSE call.start_dt

\* the finished call took the first-dose branch
UsedFirstDosePolicy ==
    \/ call.fn = "utils.get_dates" /\ call.start_dt = NoDate
    \/ call.fn = "main.get_dates" /\ call.first_dose

\* the finished call returned exactly the window <<start, end>>
ReturnedWindow(start, end) ==
    /\ ret.kind = "return"
    /\ IsYMD(ret.val.items[1]) /\ IsYMD(ret.val.items[2])
    /\ ReadYMD(ret.val.items[1]) = start
    /\ ReadYMD(ret.val.items[2]) = end

\* C2: for every reference date D the first-dose window is computed without
\* raising and is start = D + 1 day, end = (start + 3 months, day clamped to
\* the target month) + (31 - day of month of D) days, the day of month being
\* that of D before the shift.
C2_FirstDoseWindow ==
    (GetDatesDone /\ UsedFirstDosePolicy) =>
        /\ ret.kind # "raise"
        /\ ReturnedWindow(NextDay(Reference),
                          PlusDays(PlusMonthsClamped(NextDay(Reference), 3),
                                   31 - Reference.d))

\* a first-dose window was computed from 29 November: the start, 30 November,
\* has no counterpart in February, so the day is clamped before the days are added
C2_Witness ==
    /\ GetDatesDone /\ UsedFirstDosePolicy
    /\ ret.kind = "return"
    /\ Reference.d = 29 /\ Reference.m = 11
    /\ ReadYMD(ret.val.items[1]).d = 30
    /\ ReadYMD(ret.val.items[2]).m = 3

\* C3: for every first-dose date D passed as reference the second-dose window
\* is start = D + 42 days and end = D + 56 days, both rendered YYYY-MM-DD, so
\* start is strictly before end and the window spans exactly 14 days.
C3_SecondDoseWindow ==
    (GetDatesDone /\ ~UsedFirstDosePolicy /\ call.start_dt # NoDate) =>
        /\ ReturnedWindow(PlusDays(call.start_dt, 42), PlusDays(call.start_dt, 56))
        /\ DateBefore(ReadYMD(ret.val.items[1]), ReadYMD(ret.val.items[2]))
        /\ PlusDays(ReadYMD(ret.val.items[1]), 14) = ReadYMD(ret.val.items[2])

\* a second-dose window that crosses the end of February of a leap year
C3_Witness ==
    /\ GetDatesDone /\ ~UsedFirstDosePolicy
    /\ call.fn = "main.get_dates"
    /\ call.start_dt = [y |-> MaxYear, m |-> 1, d |-> 10]
    /\ ret.kind = "return"
    /\ ReadYMD(ret.val.items[1]).m = 2
    /\ ReadYMD(ret.val.items[2]).m = 3

\* C4: in every date-window computation the offset policy is selected by the
\* presence of a prior-dose date alone: no date gives the first-dose window of
\* now, a supplied date gives the second-dose window of that date.
C4_PolicyByPresence ==
    GetDatesDone =>
        /\ call.start_dt = NoDate =>
              /\ ret.kind = "return"
              /\ ReadYMD(ret.val.items[1]) = NextDay(clock)
        /\ call.start_dt # NoDate =>
              ReturnedWindow(PlusDays(call.start_dt, 42), PlusDays(call.start_dt, 56))

(***************************************************************************)
(* Properties of the timestamp parsing.                                    *)
(***************************************************************************)
\* a call of parse_date or format_date has returned or raised
ParseDone == pc = "done" /\ call.fn \in {"utils.parse_date", "main.format_date"}

\* the instant 8 hours after the one the fields f name
EightHoursLater(f) ==
    LET date == [y |-> f.y, m |-> f.m, d |-> f.d]
        next == IF f.H + 8 >= 24 THEN NextDay(date) ELSE date
    IN  [y |-> next.y, m |-> next.m, d |-> next.d,
         H |-> IF f.H + 8 >= 24 THEN f.H - 16 ELSE f.H + 8,
         M |-> f.M, S |-> f.S, us |-> f.us]

\* C5: every raw timestamp string the program parses, in parse_date and in
\* format_date, yields the parsed instant shifted by exactly +8 hours, rolling
\* over day, month and year; every non-string input is returned unchanged.
C5_ParsedShiftedEightHours ==
    ParseDone =>
        /\ ~IsInstanceStr(call.dt) => ret = Return(call.dt)
        /\ (IsInstanceStr(call.dt) /\ ret.kind = "return" /\ ret.val.type = "datetime")
              => ret.val.dt = EightHoursLater(call.dt.stamp)

(***************************************************************************)
(* Properties of the record constructors.                                  *)
(***************************************************************************)
LocationDone == pc = "done" /\ call.fn = "Location"
TimeSlotDone == pc = "done" /\ call.fn = "TimeSlot"

\* the optional fields of a raw location and the attribute each one sets
OptionalLocationFields ==
    {<<"address", "address">>, <<"latitude", "latitude">>, <<"longitude", "longitude">>,
     <<"earliestSlot", "earliest_slot">>, <<"priority", "priority">>,
     <<"minInterval", "min_interval">>, <<"maxInterval", "max_interval">>,
     <<"minClinicInterval", "min_clinic_interval">>,
     <<"maxClinicInterval", "max_clinic_interval">>}

\* the raw location d has name, hci_code and a known vaccineType, and what it
\* holds under earliestSlot, if anything, is null or a well-formed timestamp
BuildableLocation(d) ==
    /\ d["name"] # Absent /\ d["hci_code"] # Absent
    /\ d["vaccineType"] \in {PyStr("Pfizer/Comirnaty"), PyStr("Moderna")}
    /\ d["earliestSlot"] \in {Absent, PyNone, GoodStamp}

\* C6: building a Location from a raw object with name, hci_code and a known
\* vaccineType that omits any subset of the optional fields succeeds, and each
\* omitted optional field, earliest_slot included, is null in the Location.
C6_OmittedOptionalIsNull ==
    (LocationDone /\ BuildableLocation(call.data)) =>
        /\ ret.kind = "return"
        /\ \A f \in OptionalLocationFields :
              call.data[f[1]] = Absent => ret.val.attrs[f[2]] = PyNone

\* C7: building a Location from a raw object that lacks name or hci_code
\* always fails with a missing-field error and yields no Location; building a
\* TimeSlot from a raw object lacking hasCapacity always fails, while the
\* absence of id or time never makes it fail.
C7_RequiredFields ==
    /\ (LocationDone /\ call.data["name"] = Absent) => ret = RaiseKey("name")
    /\ (LocationDone /\ call.data["name"] # Absent /\ call.data["hci_code"] = Absent)
          => ret = RaiseKey("hci_code")
    /\ (TimeSlotDone /\ call.data["hasCapacity"] = Absent) => ret.kind = "raise"
    /\ (TimeSlotDone /\ call.data["hasCapacity"] # Absent
            /\ call.data["time"] \in {Absent, PyNone, GoodStamp})
          => /\ ret.kind = "return"
             /\ call.data["id"] = Absent => ret.val.attrs["id"] = PyNone
             /\ call.data["time"] = Absent => ret.val.attrs["time"] = PyNone

\* a raw location with every field but hci_code was refused
C7_Witness ==
    /\ LocationDone
    /\ call.data["hci_code"] = Absent
    /\ \A k \in LocationKeys \ {"hci_code"} : call.data[k] # Absent
    /\ call.data["earliestSlot"] = GoodStamp
    /\ call.data["vaccineType"] = PyStr("Moderna")
    /\ ret.kind = "raise"

(***************************************************************************)
(* Properties of the API client.                                           *)
(***************************************************************************)
\* a call of get_date_slots of models.py has issued its request
DateSlotsRequested ==
    /\ call.fn \in {"API.get_date_slots", "Location.get_date_slots"}
    /\ Len(gets) > 0

\* C1: the availability request of API.get_date_slots carries isFirstAppt =
\* true exactly when first_dose_date is absent, and false exactly when it is
\* present.
C1_FirstApptIffNoDate ==
    DateSlotsRequested =>
        \A i \in 1..Len(gets) :
            (gets[i].isFirstAppt = FormatBool(TRUE)) <=> (call.first_dose_date = NoDate)

\* the raw slot has what a well-formed slot has: hasCapacity, and a time that
\* is absent, null or a timestamp of the expected format
WellFormedSlot(raw) ==
    /\ raw["hasCapacity"] # Absent
    /\ raw["time"] \in {Absent, PyNone, GoodStamp, EarlyStamp}

WellFormedAvailability(r) ==
    \A i \in 1..Len(r.entries) :
        \A j \in 1..Len(r.entries[i].val) : WellFormedSlot(r.entries[i].val[j])

\* the value under key of a raw object, None when it lacks the key
GetOrNone(raw, key) == IF raw[key] = Absent THEN PyNone ELSE raw[key]

\* the TimeSlot slot holds what the raw slot raw gives
SlotBuiltFrom(slot, raw) ==
    /\ slot.type = "TimeSlot"
    /\ slot.attrs["id"] = GetOrNone(raw, "id")
    /\ slot.attrs["has_capacity"] = raw["hasCapacity"]
    /\ IF IsInstanceStr(GetOrNone(raw, "time"))
       THEN slot.attrs["time"] = PyDatetime(EightHoursLater(raw["time"].stamp))
       ELSE slot.attrs["time"] = PyNone

DateSlotsAnswered ==
    /\ pc = "done"
    /\ call.fn \in {"API.get_date_slots", "Location.get_date_slots"}
    /\ body # NoBody

\* C8: for every well-formed availability response, get_date_slots returns a
\* mapping with exactly the response's date keys in the server's order, and
\* under each key a sequence of the length of the response array whose i-th
\* TimeSlot is built from the i-th raw slot; an empty response object yields
\* an empty mapping and not an error.
C8_SlotMapMirrorsResponse ==
    (DateSlotsAnswered /\ WellFormedAvailability(body)) =>
        /\ ret.kind = "return"
        /\ ret.val.type = "dict"
        /\ Len(ret.val.entries) = Len(body.entries)
        /\ \A i \in 1..Len(body.entries) :
              /\ ret.val.entries[i].key = body.entries[i].key
              /\ Len(ret.val.entries[i].val) = Len(body.entries[i].val)
              /\ \A j \in 1..Len(body.entries[i].val) :
                    SlotBuiltFrom(ret.val.entries[i].val[j], body.entries[i].val[j])

\* a response with two date keys, the later date first, and two different
\* slots under the first key was turned into a mapping
C8_Witness ==
    /\ DateSlotsAnswered /\ WellFormedAvailability(body)
    /\ Len(body.entries) = 2
    /\ body.entries[1].key = "2021-06-05"
    /\ Len(body.entries[1].val) = 2
    /\ body.entries[1].val[1] # body.entries[1].val[2]
    /\ ret.kind = "return"

(***************************************************************************)
(* Properties of the requests and of the interactive flow.                 *)
(***************************************************************************)
ApiCalled ==
    call.fn \in {"API.get_locations", "API.get_date_slots", "Location.get_date_slots"}

InMain == call.fn = "main"

\* main() has read an input at the prompt kind
HasInput(kind) == \E i \in 1..Len(call.inputs) : call.inputs[i].kind = kind

\* what main() read at the prompt kind
TextOf(kind) == call.inputs[CHOOSE i \in 1..Len(call.inputs) : call.inputs[i].kind = kind].text

\* the input at the prompt kind is the last one main() read
LastInput(kind) == call.inputs[Len(call.inputs)].kind = kind

ValidGroupText(text) == text \in {<<"1">>, <<"2">>, <<"3">>, <<"4">>}

ValidDoseText(text) == text \in {<<"1">>, <<"2">>}

\* the text names a day of the calendar in the form DD/MM/YYYY: walking from
\* the first of its month to its day does not leave the month
ValidDateText(text) ==
    /\ text.form = "d/m/y"
    /\ text.m \in 1..12 /\ text.d >= 1
    /\ PlusDays([y |-> text.y, m |-> text.m, d |-> 1], text.d - 1).m = text.m

\* the number of GETs issued to route
NumGets(route) == Cardinality({i \in 1..Len(gets) : gets[i].route = route})

\* the number of prompts shown
NumPrompts == Cardinality({i \in 1..Len(out) : out[i].ev = "input"})

\* a table with this header was printed
TablePrinted(header) ==
    \E i \in 1..Len(out) : out[i].ev = "table" /\ out[i].header = header

LocationsTablePrinted == TablePrinted(<<"Location", "ID", "Earliest Slot", "Vaccine Type">>)

SlotTablePrinted == TablePrinted(<<"Time", "Availability">>)

\* main() has called print_locations: it read a valid group
PrintLocationsCalled == HasInput("group") /\ ValidGroupText(TextOf("group"))

\* main() has called print_details: it read dose 1, or dose 2 and a valid date
PrintDetailsCalled ==
    \/ HasInput("dose") /\ TextOf("dose") = <<"1">>
    \/ HasInput("first_dose") /\ ValidDateText(TextOf("first_dose"))

\* C9: each call of a public query operation issues exactly one HTTP GET,
\* whether it succeeds or fails: a failed or unparseable request is never
\* retried and the failure leaves the operation at once.
C9_OneGetPerOperation ==
    /\ ApiCalled => Len(gets) = 1
    /\ InMain =>
          /\ NumGets("LOCATIONS") = (IF PrintLocationsCalled THEN 1 ELSE 0)
          /\ NumGets("AVAILABILITY") = (IF PrintDetailsCalled THEN 1 ELSE 0)
          /\ Len(gets) = NumGets("LOCATIONS") + NumGets("AVAILABILITY")
    /\ (ret.kind = "raise" /\ ret.exc \in Failures) => pc \in {"done", "crashed"}

\* the GET of API.get_date_slots failed and the call ended with the failure
C9_Witness ==
    /\ call.fn = "API.get_date_slots"
    /\ pc = "done"
    /\ ret = Raise("ConnectionError")
    /\ Len(gets) = 1

\* C10: in every run of main() the first invalid input ends the flow: after
\* an invalid group no request is issued and no further prompt shown; after
\* an invalid dose or first-dose date no availability request is issued;
\* after a date key absent from the response no slot table is printed. The
\* availability request is issued only after the locations request has
\* returned and a valid dose (and, for dose 2, a valid date) has been read.
C10_InvalidInputEndsFlow ==
    InMain =>
        /\ (HasInput("group") /\ ~ValidGroupText(TextOf("group"))) =>
              /\ pc = "done" /\ LastInput("group")
              /\ gets = <<>>
              /\ NumPrompts = 1
        /\ (HasInput("dose") /\ ~ValidDoseText(TextOf("dose"))) =>
              /\ pc = "done" /\ LastInput("dose")
              /\ NumGets("AVAILABILITY") = 0
        /\ (HasInput("first_dose") /\ ~ValidDateText(TextOf("first_dose"))) =>
              /\ pc = "done" /\ LastInput("first_dose")
              /\ NumGets("AVAILABILITY") = 0
        /\ (HasInput("date") /\ \A i \in 1..Len(body.entries) :
                                    body.entries[i].key # TextOf("date")) =>
              /\ pc = "done" /\ LastInput("date")
              /\ ~SlotTablePrinted
        /\ NumGets("AVAILABILITY") > 0 =>
              /\ gets[1].route = "LOCATIONS"
              /\ LocationsTablePrinted
              /\ HasInput("dose") /\ ValidDoseText(TextOf("dose"))
              /\ TextOf("dose") = <<"2">> =>
                    HasInput("first_dose") /\ ValidDateText(TextOf("first_dose"))

\* main() was given 31 February as the date of the first dose and ended
\* after the locations request, with no availability request
C10_Witness ==
    /\ InMain
    /\ HasInput("first_dose") /\ TextOf("first_dose").d = 31
    /\ pc = "done"
    /\ Len(gets) = 1
    /\ LocationsTablePrinted

====
